---- MODULE Spec2Model ----
(* The URL shortener of examples/shorten.rs: the `urls` table, the two axum *)
(* handlers (POST / -> shorten, GET /:id -> redirect), the gateway calls    *)
(* AppState::shorten / AppState::get_url, the sqlx::Error -> ShortenError   *)
(* conversion and the ShortenError -> Response rendering.                   *)
(*                                                                          *)
(* Every SQL statement runs in its own (autocommit) transaction, so one     *)
(* statement is one atomic step; a handler is interleaved with the other    *)
(* handlers only at its .await points (arrival, store round trip, reply).   *)
EXTENDS Integers, FiniteSets, Sequences, TLC

(***************************************************************************)
(* Bounds of the model                                                     *)
(***************************************************************************)
\* Distinct URL strings that requests submit.
NumUrls == 2
\* Identifiers the generator can produce (nanoid!(6) values).
NumIds == 2

\* Handler tasks that may be in flight at the same time.
Procs == {"h1", "h2"}

(***************************************************************************)
(* Program constants                                                       *)
(***************************************************************************)
MAX_RETRY_TIMES == 10

UNPROCESSABLE_ENTITY == 422
CREATED == 201
PERMANENT_REDIRECT == 308
INTERNAL_SERVER_ERROR == 500
CONFLICT == 409
NOT_FOUND == 404

(***************************************************************************)
(* Values                                                                  *)
(***************************************************************************)
Urls == 1 .. NumUrls
\* One of the submitted strings holds a control character (for instance
\* "http://a/\nb"): JSON and TEXT accept it, HeaderValue does not. The
\* others are made of visible ASCII only.
CtlUrl == NumUrls
Ids == 1 .. NumIds

\* struct UrlRecord { id, url }
UrlRecord == [id : Ids, url : Urls]

\* The sqlx::Error values the two statements can end in. `constraint` is
\* DatabaseError::constraint(): "" stands for None.
ErrPkey == [kind |-> "Database", constraint |-> "urls_pkey"]
ErrDatabase == [kind |-> "Database", constraint |-> ""]
ErrIo == [kind |-> "Io", constraint |-> ""]
ErrRowNotFound == [kind |-> "RowNotFound", constraint |-> ""]
NoErr == [kind |-> "", constraint |-> ""]

\* Failures of the store or of the connection to it: they can end any
\* statement, whatever the table holds.
StoreFaults == {ErrDatabase, ErrIo}

\* Result<T, E>: val is 0 in an Err, err is "" in an Ok; err names the error
\* (a ShortenError variant, or the kind of the sqlx::Error inside an anyhow).
Ok(v) == [tag |-> "Ok", val |-> v, err |-> ""]
Err(e) == [tag |-> "Err", val |-> 0, err |-> e]
NoResult == [tag |-> "", val |-> 0, err |-> ""]

(***************************************************************************)
(* The store: table urls (id CHAR(6) PRIMARY KEY, url TEXT NOT NULL UNIQUE) *)
(***************************************************************************)
\* Variants of the statement, as it would run had it been written otherwise.
\* ... DO UPDATE SET id = excluded.id: a URL conflict re-keys the row.
InsertOnConflict_SetId(table, id, url) ==
    LET hit == {r \in table : r.url = url}
    IN  IF \E r \in table : r.id = id /\ r.url # url
        THEN [table |-> table, row |-> 0, err |-> ErrPkey]
        ELSE [table |-> (table \ hit) \cup {[id |-> id, url |-> url]},
              row |-> id, err |-> NoErr]

\* id CHAR(6) without PRIMARY KEY: nothing guards the identifier.
InsertOnConflict_NoPkey(table, id, url) ==
    LET hit == {r \in table : r.url = url}
    IN  IF hit # {}
        THEN [table |-> table, row |-> (CHOOSE r \in hit : TRUE).id, err |-> NoErr]
        ELSE [table |-> table \cup {[id |-> id, url |-> url]}, row |-> id, err |-> NoErr]

\* A plain INSERT into a table whose url column is not UNIQUE.
InsertOnConflict_NoUnique(table, id, url) ==
    IF \E r \in table : r.id = id
    THEN [table |-> table, row |-> 0, err |-> ErrPkey]
    ELSE [table |-> table \cup {[id |-> id, url |-> url]}, row |-> id, err |-> NoErr]

\* ON CONFLICT (id) DO UPDATE SET url = excluded.url: an identifier in use
\* is handed to the new URL.
InsertOnConflict_ConflictId(table, id, url) ==
    LET hit == {r \in table : r.id = id}
    IN  IF \E r \in table : r.url = url /\ r.id # id
        THEN [table |-> table, row |-> 0, err |-> ErrDatabase]
        ELSE [table |-> (table \ hit) \cup {[id |-> id, url |-> url]},
              row |-> id, err |-> NoErr]

\* The primary key enforced before the arbiter index (url) is probed
InsertOnConflict_PkeyFirst(table, id, url) ==
    LET hit == {r \in table : r.url = url}
    IN  IF \E r \in table : r.id = id /\ r.url # url
        THEN [table |-> table, row |-> 0, err |-> ErrPkey]
        ELSE IF hit # {}
        THEN [table |-> table, row |-> (CHOOSE r \in hit : TRUE).id, err |-> NoErr]
        ELSE [table |-> table \cup {[id |-> id, url |-> url]}, row |-> id, err |-> NoErr]

\* INSERT INTO urls (id, url) VALUES ($1, $2)
\*   ON CONFLICT (url) DO UPDATE SET url = excluded.url RETURNING id
\* The arbiter index (url) is probed first; only when it shows no conflict
\* is the row inserted, and then the primary key is enforced.
\* Gives the new table and the statement's outcome (a row id or a raw error).
InsertOnConflict(table, id, url) ==
    LET hit == {r \in table : r.url = url}
    IN  IF hit # {}
        THEN LET old == CHOOSE r \in hit : TRUE
                 new == [id |-> old.id, url |-> url]
             IN  [table |-> (table \ {old}) \cup {new}, row |-> old.id, err |-> NoErr]
        ELSE IF \E r \in table : r.id = id
        THEN [table |-> table, row |-> 0, err |-> ErrPkey]
        ELSE [table |-> table \cup {[id |-> id, url |-> url]}, row |-> id, err |-> NoErr]

\* select url from urls where id = $1, fetch_one: the first row or RowNotFound.
SelectUrl(table, id) ==
    LET hit == {r \in table : r.id = id}
    IN  IF hit = {}
        THEN [row |-> 0, err |-> ErrRowNotFound]
        ELSE [row |-> (CHOOSE r \in hit : TRUE).url, err |-> NoErr]

(***************************************************************************)
(* Error taxonomy                                                          *)
(***************************************************************************)
\* sqlx::Error::Database(_) => PrimaryKeyConflict, whatever the constraint
FromSqlxError_AnyDatabase(e) ==
    IF e.kind = "Database"
    THEN "PrimaryKeyConflict"
    ELSE "DbOperationException"

\* impl From<sqlx::Error> for ShortenError
FromSqlxError(e) ==
    IF e.kind = "Database" /\ e.constraint = "urls_pkey"
    THEN "PrimaryKeyConflict"
    ELSE "DbOperationException"

ShortenErrors ==
    {"BindException", "ClientConnectionFailure", "PrimaryKeyConflict",
     "DbOperationException", "NotFound"}

\* PrimaryKeyConflict given the status of its neighbours in the match.
ErrorStatus_Conflict500(e) ==
    CASE e = "BindException" -> INTERNAL_SERVER_ERROR
      [] e = "ClientConnectionFailure" -> INTERNAL_SERVER_ERROR
      [] e = "PrimaryKeyConflict" -> INTERNAL_SERVER_ERROR
      [] e = "DbOperationException" -> INTERNAL_SERVER_ERROR
      [] e = "NotFound" -> NOT_FOUND

\* impl IntoResponse for ShortenError: the first match
ErrorStatus(e) ==
    CASE e = "BindException" -> INTERNAL_SERVER_ERROR
      [] e = "ClientConnectionFailure" -> INTERNAL_SERVER_ERROR
      [] e = "PrimaryKeyConflict" -> CONFLICT
      [] e = "DbOperationException" -> INTERNAL_SERVER_ERROR
      [] e = "NotFound" -> NOT_FOUND

\* impl IntoResponse for ShortenError: the second match
ErrorCode(e) ==
    CASE e = "BindException" -> "BIND_ERROR"
      [] e = "ClientConnectionFailure" -> "CLIENT_CONNECTION_ERROR"
      [] e = "PrimaryKeyConflict" -> "PRIMARY_KEY_CONFLICT"
      [] e = "DbOperationException" -> "DB_OPERATION_ERROR"
      [] e = "NotFound" -> "NOT_FOUND"

(***************************************************************************)
(* Responses                                                               *)
(* status 0 is no response at all (the handler task panicked). link is the *)
(* identifier of the short link in the body of a 201 (0: no body url),     *)
(* location the set of Location header values, code the machine-readable   *)
(* code of an error body ("": no such body).                               *)
(***************************************************************************)
NoResp == [status |-> 0, code |-> "", link |-> 0, location |-> {}]

\* format!("http://{}/{}", LISTEN_ADDR, id): the text differs exactly where
\* the identifier does, so the link is kept as the identifier after the
\* fixed prefix.
ShortLink(id) == id

\* (status, Json(ErrorResp { message, code })).into_response()
IntoResponse(e) ==
    [status |-> ErrorStatus(e), code |-> ErrorCode(e), link |-> 0, location |-> {}]

\* Err(StatusCode): a bare status, empty body
StatusOnly(s) == [status |-> s, code |-> "", link |-> 0, location |-> {}]

\* Ok((StatusCode::CREATED, Json(ShortenRes { url: format!("http://{}/{}", LISTEN_ADDR, id) })))
CreatedResponse(id) ==
    [status |-> CREATED, code |-> "", link |-> ShortLink(id), location |-> {}]

\* url.parse::<HeaderValue>(): Err for a string with a control character
HeaderValueParse(url) ==
    IF url = CtlUrl THEN Err("InvalidHeaderValue") ELSE Ok(url)

\* Result::unwrap: the value, or a panic
Panics(r) == r.tag = "Err"

\* Ok((StatusCode::PERMANENT_REDIRECT, headers))
RedirectResponse(v) ==
    [status |-> PERMANENT_REDIRECT, code |-> "", link |-> 0, location |-> {v}]

(***************************************************************************)
(* Gateway: impl AppState                                                  *)
(***************************************************************************)
\* What a statement sent to the store can come to. `sent` is what the
\* statement does when the store executes it: [table, row, err].
\*  - the store executes it and the reply arrives;
\*  - the store or the connection fails before the statement runs;
\*  - the store executes it and the connection fails before the reply arrives.
FetchOne(table, sent) ==
    {[table |-> sent.table, row |-> sent.row, err |-> sent.err]}
    \cup {[table |-> table, row |-> 0, err |-> f] : f \in StoreFaults}
    \cup {[table |-> sent.table, row |-> 0, err |-> ErrIo]}

\* Ok(id) in place of Ok(ret.id): the candidate, not the row the store returned.
AppStateShorten_OwnId(table, id, url) ==
    {[table |-> o.table,
      ret |-> IF o.err = NoErr THEN Ok(id) ELSE Err(FromSqlxError(o.err))]
        : o \in FetchOne(table, InsertOnConflict(table, id, url))}

\* AppState::shorten after nanoid!(6) gave id: the statement, `?` converting
\* the sqlx::Error, Ok(ret.id). Gives the set of [table, ret] it can end in.
AppStateShorten(table, id, url) ==
    {[table |-> o.table,
      ret |-> IF o.err = NoErr THEN Ok(o.row) ELSE Err(FromSqlxError(o.err))]
        : o \in FetchOne(table, InsertOnConflict(table, id, url))}

\* AppState::get_url: the statement, `?` into anyhow, Ok(ret.url)
AppStateGetUrl(table, id) ==
    {[table |-> o.table,
      ret |-> IF o.err = NoErr THEN Ok(o.row) ELSE Err(o.err.kind)]
        : o \in FetchOne(table, [table |-> table, row |-> SelectUrl(table, id).row,
                                 err |-> SelectUrl(table, id).err])}

(***************************************************************************)
(* State                                                                   *)
(***************************************************************************)
VARIABLES
    urls,       \* the rows of table urls
    pc,         \* where each handler task stands
    data,       \* ShortenReq.url of the submit request (0: none)
    path,       \* Path(id) of the resolve request (0: none)
    id,         \* the candidate nanoid!(6) gave the last store attempt (0: none)
    retry_cnt,  \* shorten's retry_cnt
    result,     \* what the last gateway call handed to the handler (shorten_res)
    resp,       \* the response of the finished handler
    attempts,   \* statements the running handler has sent to the store
    issued,     \* [url, id] of every 201 response given so far
    dropped,    \* the rows inserted by statements whose handler had been
                \* dropped when the store ran them (noted under SpecNoted)
    expect      \* what the store held for the request when it arrived: for
                \* a resolve request the urls that 201 responses had paired
                \* with its identifier, for a submit request the identifiers
                \* of the rows of its url

vars == <<urls, pc, data, path, id, retry_cnt, result, resp, attempts, issued, dropped, expect>>

TypeOK ==
    /\ urls \subseteq UrlRecord
    /\ pc \in [Procs -> {"idle", "loop", "query", "get_url", "done", "err"}]
    /\ data \in [Procs -> {0} \cup Urls]
    /\ path \in [Procs -> {0} \cup Ids]
    /\ id \in [Procs -> {0} \cup Ids]
    /\ retry_cnt \in [Procs -> 0 .. MAX_RETRY_TIMES]
    /\ attempts \in [Procs -> 0 .. MAX_RETRY_TIMES]
    /\ issued \subseteq UrlRecord
    /\ dropped \subseteq UrlRecord
    /\ expect \in [Procs -> SUBSET (Urls \cup Ids)]

\* AppState::try_new: CREATE TABLE IF NOT EXISTS on a fresh database; no
\* request is being handled.
Init ==
    /\ urls = {}
    /\ pc = [p \in Procs |-> "idle"]
    /\ data = [p \in Procs |-> 0]
    /\ path = [p \in Procs |-> 0]
    /\ id = [p \in Procs |-> 0]
    /\ retry_cnt = [p \in Procs |-> 0]
    /\ result = [p \in Procs |-> NoResult]
    /\ resp = [p \in Procs |-> NoResp]
    /\ attempts = [p \in Procs |-> 0]
    /\ issued = {}
    /\ dropped = {}
    /\ expect = [p \in Procs |-> {}]

(***************************************************************************)
(* POST / : shorten                                                        *)
(***************************************************************************)
\* if retry_cnt > MAX_RETRY_TIMES
RetryLimitReached_Gt(cnt) == cnt > MAX_RETRY_TIMES

\* if retry_cnt >= MAX_RETRY_TIMES - 1
RetryLimitReached_Early(cnt) == cnt >= MAX_RETRY_TIMES - 1

\* if retry_cnt >= MAX_RETRY_TIMES
RetryLimitReached(cnt) == cnt >= MAX_RETRY_TIMES

\* Err(_) => { retry_cnt += 1; continue; } for every error
MatchShortenRes_RetryAll(r) ==
    IF r.tag = "Ok" THEN "break" ELSE "continue"

\* match shorten_res: which arm is taken
MatchShortenRes(r) ==
    IF r.tag = "Ok" THEN "break"
    ELSE IF r.err = "PrimaryKeyConflict" THEN "continue"
    ELSE "return"

\* The status of the arm Err(e) => return Err(...)
ShortenErrStatus(e) == UNPROCESSABLE_ENTITY

\* The handler returns: retry_cnt is dropped (and the count of its
\* statements with it); the response stays until it is written.
Return(p) ==
    /\ pc' = [pc EXCEPT ![p] = "done"]
    /\ retry_cnt' = [retry_cnt EXCEPT ![p] = 0]
    /\ attempts' = [attempts EXCEPT ![p] = 0]

\* The router hands a POST / with body {"url": u} to shorten:
\* let mut retry_cnt = 0, enter the loop.
ShortenRequest(p, u) ==
    /\ pc[p] = "idle"
    /\ pc' = [pc EXCEPT ![p] = "loop"]
    /\ data' = [data EXCEPT ![p] = u]
    /\ retry_cnt' = [retry_cnt EXCEPT ![p] = 0]
    /\ expect' = [expect EXCEPT ![p] = {r.id : r \in {x \in urls : x.url = u}}]
    /\ UNCHANGED <<urls, path, id, result, resp, attempts, issued, dropped>>

\* Top of the loop with the bound reached: return Err(UNPROCESSABLE_ENTITY).
RetryExhausted(p) ==
    /\ pc[p] = "loop"
    /\ RetryLimitReached(retry_cnt[p])
    /\ resp' = [resp EXCEPT ![p] = StatusOnly(UNPROCESSABLE_ENTITY)]
    /\ Return(p)
    /\ UNCHANGED <<urls, data, path, id, result, issued, dropped, expect>>

\* Top of the loop below the bound: state.shorten(&data.url) draws
\* nanoid!(6) and sends the statement (suspends on the round trip).
Generate(p, i) ==
    /\ pc[p] = "loop"
    /\ ~RetryLimitReached(retry_cnt[p])
    /\ pc' = [pc EXCEPT ![p] = "query"]
    /\ id' = [id EXCEPT ![p] = i]
    /\ attempts' = [attempts EXCEPT ![p] = @ + 1]
    /\ UNCHANGED <<urls, data, path, retry_cnt, result, resp, issued, dropped, expect>>

\* The store runs the statement of the attempt in flight (or fails) and the
\* handler resumes with shorten_res, running on to its next suspension:
\* break and answer 201, count a retry and loop, or return the error status.
ShortenAttempt(p) ==
    /\ pc[p] = "query"
    /\ \E o \in AppStateShorten(urls, id[p], data[p]) :
        /\ urls' = o.table
        /\ result' = [result EXCEPT ![p] = o.ret]
        /\ CASE MatchShortenRes(o.ret) = "break" ->
                  /\ resp' = [resp EXCEPT ![p] = CreatedResponse(o.ret.val)]
                  /\ issued' = issued \cup {[id |-> o.ret.val, url |-> data[p]]}
                  /\ Return(p)
                  /\ UNCHANGED id
             [] MatchShortenRes(o.ret) = "continue" ->
                  /\ pc' = [pc EXCEPT ![p] = "loop"]
                  /\ retry_cnt' = [retry_cnt EXCEPT ![p] = @ + 1]
                  /\ id' = [id EXCEPT ![p] = 0]
                  /\ UNCHANGED <<resp, issued, attempts>>
             [] MatchShortenRes(o.ret) = "return" ->
                  /\ resp' = [resp EXCEPT ![p] = StatusOnly(ShortenErrStatus(o.ret.err))]
                  /\ Return(p)
                  /\ UNCHANGED <<id, issued>>
    /\ UNCHANGED <<data, path, dropped, expect>>

(***************************************************************************)
(* GET /:id : redirect                                                     *)
(***************************************************************************)
\* .map_err(|_| ShortenError::DbOperationException(..))
RedirectMapErr_Db(e) == "DbOperationException"

\* .map_err(|_| ShortenError::NotFound)
RedirectMapErr(e) == "NotFound"

\* The router hands a GET /i to redirect: state.get_url(&id) sends the
\* statement (suspends on the round trip).
RedirectRequest(p, i) ==
    /\ pc[p] = "idle"
    /\ pc' = [pc EXCEPT ![p] = "get_url"]
    /\ path' = [path EXCEPT ![p] = i]
    /\ attempts' = [attempts EXCEPT ![p] = 1]
    /\ expect' = [expect EXCEPT ![p] = {r.url : r \in {x \in issued : x.id = i}}]
    /\ UNCHANGED <<urls, data, id, retry_cnt, result, resp, issued, dropped>>

\* The store runs the select (or fails) and the handler resumes with the
\* result: the error response, or the Location header and 308;
\* url.parse().unwrap() panics on a value no header can carry, and the task
\* ends without a response. A select leaves the table as it is, so the
\* round trip and the resumption are one step.
Redirect(p) ==
    /\ pc[p] = "get_url"
    /\ \E o \in AppStateGetUrl(urls, path[p]) :
        /\ urls' = o.table
        /\ result' = [result EXCEPT ![p] = o.ret]
        /\ resp' = [resp EXCEPT ![p] =
              IF o.ret.tag = "Err" THEN IntoResponse(RedirectMapErr(o.ret.err))
              ELSE IF Panics(HeaderValueParse(o.ret.val)) THEN NoResp
              ELSE RedirectResponse(HeaderValueParse(o.ret.val).val)]
    /\ Return(p)
    /\ UNCHANGED <<data, path, id, issued, dropped, expect>>

(***************************************************************************)
(* End of a handler task                                                   *)
(***************************************************************************)
Reset(p) ==
    /\ pc' = [pc EXCEPT ![p] = "idle"]
    /\ data' = [data EXCEPT ![p] = 0]
    /\ path' = [path EXCEPT ![p] = 0]
    /\ id' = [id EXCEPT ![p] = 0]
    /\ retry_cnt' = [retry_cnt EXCEPT ![p] = 0]
    /\ result' = [result EXCEPT ![p] = NoResult]
    /\ resp' = [resp EXCEPT ![p] = NoResp]
    /\ attempts' = [attempts EXCEPT ![p] = 0]
    /\ expect' = [expect EXCEPT ![p] = {}]

\* The response has been written (or the panicked task reaped); the task
\* is free for the next request.
Finish(p) ==
    /\ pc[p] = "done"
    /\ Reset(p)
    /\ UNCHANGED <<urls, issued, dropped>>

\* A statement cut off half-way: the row written with no index consulted
Drop_Torn(p) ==
    /\ pc[p] \in {"query", "get_url"}
    /\ \/ UNCHANGED urls
       \/ /\ pc[p] = "query"
          /\ urls' = urls \cup {[id |-> id[p], url |-> data[p]]}
    /\ Reset(p)
    /\ UNCHANGED issued

\* The caller disconnects while the handler is suspended on a store round
\* trip: the future is dropped. A statement sent and not yet run may still
\* be executed by the store, or never reach it.
Drop(p) ==
    /\ pc[p] \in {"query", "get_url"}
    /\ \/ UNCHANGED urls
       \/ /\ pc[p] = "query"
          /\ urls' = InsertOnConflict(urls, id[p], data[p]).table
    /\ Reset(p)
    /\ UNCHANGED issued

Abandon(p) ==
    /\ Drop(p)
    /\ UNCHANGED dropped

\* Drop, with the row its statement inserted (if any) noted
AbandonNoted(p) ==
    /\ Drop(p)
    /\ dropped' = dropped \cup (urls' \ urls)

Next ==
    \/ \E p \in Procs, u \in Urls : ShortenRequest(p, u)
    \/ \E p \in Procs : RetryExhausted(p)
    \/ \E p \in Procs, i \in Ids : Generate(p, i)
    \/ \E p \in Procs : ShortenAttempt(p)
    \/ \E p \in Procs, i \in Ids : RedirectRequest(p, i)
    \/ \E p \in Procs : Redirect(p)
    \/ \E p \in Procs : Finish(p)
    \/ \E p \in Procs : Abandon(p)

Spec == Init /\ [][Next]_vars

NextNoted ==
    \/ \E p \in Procs, u \in Urls : ShortenRequest(p, u)
    \/ \E p \in Procs : RetryExhausted(p)
    \/ \E p \in Procs, i \in Ids : Generate(p, i)
    \/ \E p \in Procs : ShortenAttempt(p)
    \/ \E p \in Procs, i \in Ids : RedirectRequest(p, i)
    \/ \E p \in Procs : Redirect(p)
    \/ \E p \in Procs : Finish(p)
    \/ \E p \in Procs : AbandonNoted(p)

SpecNoted == Init /\ [][NextNoted]_vars

\* The runtime polls a handler that is ready to run, and every store call
\* returns: a submit that is not dropped takes its next step.
FairSpec ==
    /\ Spec
    /\ \A p \in Procs :
        /\ WF_vars(RetryExhausted(p))
        /\ WF_vars(\E i \in Ids : Generate(p, i))
        /\ WF_vars(ShortenAttempt(p))

(***************************************************************************)
(* Rendering of an error value                                             *)
(* A handler declared -> Result<_, ShortenError> that returns Err(e) has e *)
(* rendered by into_response, whatever variant e is. SpecRender starts     *)
(* each handler task with one of the five variants to return.              *)
(***************************************************************************)
InitRender ==
    /\ urls = {}
    /\ pc = [p \in Procs |-> "err"]
    /\ data = [p \in Procs |-> 0]
    /\ path = [p \in Procs |-> 0]
    /\ id = [p \in Procs |-> 0]
    /\ retry_cnt = [p \in Procs |-> 0]
    /\ result \in [Procs -> {Err(e) : e \in ShortenErrors}]
    /\ resp = [p \in Procs |-> NoResp]
    /\ attempts = [p \in Procs |-> 0]
    /\ issued = {}
    /\ dropped = {}
    /\ expect = [p \in Procs |-> {}]

\* impl IntoResponse for Result<T, E>: Err(e) => e.into_response()
Render(p) ==
    /\ pc[p] = "err"
    /\ resp' = [resp EXCEPT ![p] = IntoResponse(result[p].err)]
    /\ pc' = [pc EXCEPT ![p] = "done"]
    /\ UNCHANGED <<urls, data, path, id, retry_cnt, result, attempts, issued, dropped, expect>>

NextRender ==
    \/ \E p \in Procs : Render(p)
    \/ \E p \in Procs : Finish(p)

SpecRender == InitRender /\ [][NextRender]_vars

(***************************************************************************)
(* Properties                                                              *)
(***************************************************************************)
Submits == {p \in Procs : data[p] # 0}
Resolves == {p \in Procs : path[p] # 0}

\* The kinds of sqlx::Error that are failures of the store or connection.
FaultKinds == {f.kind : f \in StoreFaults}

C2_Idempotent ==
    [][/\ \A a, b \in issued' : a.url = b.url => a.id = b.id
       /\ \A p \in Submits :
            (/\ pc[p] = "query"
             /\ pc'[p] # "query"
             /\ \E r \in issued : r.url = data[p])
                => urls' = urls]_vars

\* A submit of a URL issued before got 201 although its own candidate was
\* another identifier than the one it returned.
C2_Witness ==
    \E p \in Submits :
        /\ pc[p] = "done"
        /\ resp[p].status = CREATED
        /\ id[p] # result[p].val
        /\ resp[p].link = ShortLink(result[p].val)
        /\ [id |-> result[p].val, url |-> data[p]] \in issued

\* C3: 201 responses to submits of distinct URLs never carry the same
\* identifier.
C3_Unique ==
    \A a, b \in issued : a.url # b.url => a.id # b.id

\* Two distinct URLs have both been answered 201.
C3_Witness ==
    \E a, b \in issued : a.url # b.url

\* C4: the rows of the table are a bijection between identifiers and URLs:
\* no two rows share an id, no two rows share a url.
C4_Bijection ==
    \A a, b \in urls : (a.id = b.id \/ a.url = b.url) => a = b

\* The table holds several rows and an attempt has just been refused for
\* its identifier.
C4_Witness ==
    /\ Cardinality(urls) >= 2
    /\ \E p \in Submits : result[p] = Err("PrimaryKeyConflict") /\ pc[p] = "loop"

\* The rows of the table with url u / with identifier i.
RowsOfUrl(u) == {r \in urls : r.url = u}
RowsOfId(i) == {r \in urls : r.id = i}

\* Handler p takes a step out of its store round trip and is not dropped.
Resumes(p) == pc[p] = "query" /\ pc'[p] \in {"loop", "done"}

\* C5: of the submits of one URL that are in flight together, every one
\* answered 201 carries the identifier of the single row stored for that
\* URL; two of them never carry different identifiers.
C5_SameUrlRace ==
    \A p \in Submits :
        (pc[p] = "done" /\ resp[p].status = CREATED) =>
            /\ \E i \in Ids :
                /\ resp[p].link = ShortLink(i)
                /\ RowsOfUrl(data[p]) = {[id |-> i, url |-> data[p]]}
            /\ \A q \in Submits :
                (pc[q] = "done" /\ resp[q].status = CREATED /\ data[q] = data[p])
                    => resp[q].link = resp[p].link

\* Two submits of one URL, in flight together with different candidates,
\* have both been answered 201.
C5_Witness ==
    \E p, q \in Submits :
        /\ p # q
        /\ data[p] = data[q]
        /\ id[p] # id[q]
        /\ pc[p] = "done" /\ resp[p].status = CREATED
        /\ pc[q] = "done" /\ resp[q].status = CREATED

\* C6: no identifier ever has two rows; a store attempt whose candidate is
\* the identifier of another URL's row, for a URL not stored, changes no row
\* and - when the store runs it and the reply arrives - ends in
\* PrimaryKeyConflict, which sends the handler back into the loop with one
\* more retry counted.
C6_SameIdRace ==
    [][/\ \A i \in Ids : Cardinality({r \in urls' : r.id = i}) <= 1
       /\ \A p \in Submits :
            (/\ pc[p] = "query"
             /\ pc'[p] # "query"
             /\ RowsOfUrl(data[p]) = {}
             /\ RowsOfId(id[p]) # {})
                => /\ urls' = urls
                   /\ (Resumes(p) /\ result'[p] # Err("DbOperationException"))
                        => /\ result'[p] = Err("PrimaryKeyConflict")
                           /\ pc'[p] = "loop"
                           /\ retry_cnt'[p] = retry_cnt[p] + 1]_vars

\* Two attempts with the same candidate for different URLs were in flight
\* together: one has inserted its row and been answered 201, the other has
\* been refused and is back in the loop.
C6_Witness ==
    \E p, q \in Submits :
        /\ data[p] # data[q]
        /\ pc[p] = "done" /\ resp[p].status = CREATED
        /\ id[p] = result[p].val
        /\ pc[q] = "loop" /\ result[q] = Err("PrimaryKeyConflict")
        /\ RowsOfId(id[p]) = {[id |-> id[p], url |-> data[p]]}
        /\ RowsOfUrl(data[q]) = {}
        /\ Cardinality(urls) = 1

\* C7: while fewer than MAX_RETRY_TIMES attempts have collided the handler
\* neither gives up nor shows the collision: a PrimaryKeyConflict sends it
\* back into the loop, it returns from the top of the loop only with the
\* bound reached, an attempt with a free candidate for a URL not stored
\* that the store runs and answers is answered 201 with that candidate, and
\* no submit is ever answered 409 / PRIMARY_KEY_CONFLICT.
C7_CollisionTransparent ==
    [][\A p \in Submits :
        /\ (Resumes(p) /\ result'[p] = Err("PrimaryKeyConflict"))
              => (pc'[p] = "loop" /\ retry_cnt[p] < MAX_RETRY_TIMES)
        /\ (pc[p] = "loop" /\ pc'[p] = "done")
              => retry_cnt[p] = MAX_RETRY_TIMES
        /\ (/\ Resumes(p)
            /\ RowsOfUrl(data[p]) = {}
            /\ RowsOfId(id[p]) = {}
            /\ result'[p] # Err("DbOperationException"))
              => /\ retry_cnt[p] \in 0 .. MAX_RETRY_TIMES - 1
                 /\ pc'[p] = "done"
                 /\ resp'[p] = CreatedResponse(id[p])
                 /\ [id |-> id[p], url |-> data[p]] \in urls'
        /\ pc'[p] = "done"
              => (resp'[p].status # CONFLICT /\ resp'[p].code # "PRIMARY_KEY_CONFLICT")]_vars

\* Nine attempts of a submit have collided and its tenth is in flight with
\* a free candidate for a URL not stored.
C7_Witness ==
    \E p \in Submits :
        /\ pc[p] = "query"
        /\ retry_cnt[p] = MAX_RETRY_TIMES - 1
        /\ attempts[p] = MAX_RETRY_TIMES
        /\ RowsOfUrl(data[p]) = {}
        /\ RowsOfId(id[p]) = {}

\* C8: a submit never sends more than MAX_RETRY_TIMES statements; an
\* attempt that ends in PrimaryKeyConflict changes no row; with the tenth
\* conflict counted the handler sends nothing more and returns 422, and
\* that return changes no row.
C8_RetryExhausted ==
    [][\A p \in Submits :
        /\ attempts'[p] <= MAX_RETRY_TIMES
        /\ (Resumes(p) /\ result'[p] = Err("PrimaryKeyConflict")) => urls' = urls
        /\ (pc[p] = "loop" /\ retry_cnt[p] = MAX_RETRY_TIMES)
              => /\ pc'[p] # "query"
                 /\ pc'[p] # pc[p] =>
                      /\ pc'[p] = "done"
                      /\ resp'[p] = StatusOnly(UNPROCESSABLE_ENTITY)
                      /\ urls' = urls]_vars

\* A submit has been answered 422 after its last attempt collided.
C8_Witness ==
    \E p \in Submits :
        /\ pc[p] = "done"
        /\ result[p] = Err("PrimaryKeyConflict")
        /\ resp[p].status = UNPROCESSABLE_ENTITY
        /\ RowsOfUrl(data[p]) = {}

\* C9, as stated: a submit whose store attempt failed with a store failure
\* other than the identifier conflict sends nothing more and is answered
\* 500 / DB_OPERATION_ERROR.
C9_StorageFailureIs500 ==
    \A p \in Submits :
        (pc[p] = "done" /\ result[p] = Err("DbOperationException")) =>
            /\ resp[p].status = INTERNAL_SERVER_ERROR
            /\ resp[p].code = "DB_OPERATION_ERROR"

\* C10: a resolve request whose identifier has no row when the store is
\* asked is answered 404 / NOT_FOUND, and the table stays as it was.
C10_UnknownIdNotFound ==
    [][\A p \in Resolves :
        (pc[p] = "get_url" /\ pc'[p] = "done" /\ RowsOfId(path[p]) = {})
            => /\ resp'[p].status = NOT_FOUND
               /\ resp'[p].code = "NOT_FOUND"
               /\ resp'[p].location = {}
               /\ urls' = urls]_vars

\* A resolve request for an identifier without a row was told so by the
\* store and has been answered 404.
C10_Witness ==
    \E p \in Resolves :
        /\ pc[p] = "done"
        /\ result[p] = Err("RowNotFound")
        /\ RowsOfId(path[p]) = {}
        /\ resp[p].status = NOT_FOUND

\* C11, as stated: a resolve request whose lookup is ended by a store or
\* connection failure while its identifier has a row is answered with a
\* 500-class status, not with 404 / NOT_FOUND.
C11_FaultIsNot404 ==
    [][\A p \in Resolves :
        (/\ pc[p] = "get_url"
         /\ pc'[p] = "done"
         /\ RowsOfId(path[p]) # {}
         /\ result'[p].err \in FaultKinds)
            => /\ resp'[p].status = INTERNAL_SERVER_ERROR
               /\ resp'[p].code # "NOT_FOUND"]_vars

\* C12, as stated: every failure response of a submit or a resolve is one
\* of the five ShortenError kinds rendered by IntoResponse: its status and
\* its code are those of one kind.
C12_FailuresAreTaxonomy ==
    \A p \in Procs :
        (pc[p] = "done" /\ resp[p].status \notin {0, CREATED, PERMANENT_REDIRECT})
            => \E e \in ShortenErrors : resp[p] = IntoResponse(e)

\* The table of section 4.6: the (status, code) of each kind.
TaxonomyRow(e) ==
    CASE e = "BindException" -> <<500, "BIND_ERROR">>
      [] e = "ClientConnectionFailure" -> <<500, "CLIENT_CONNECTION_ERROR">>
      [] e = "PrimaryKeyConflict" -> <<409, "PRIMARY_KEY_CONFLICT">>
      [] e = "DbOperationException" -> <<500, "DB_OPERATION_ERROR">>
      [] e = "NotFound" -> <<404, "NOT_FOUND">>

\* C13: whichever of the five kinds a handler returns, the response
\* rendered for it carries the status and the code of that kind's row, and
\* nothing of a success response.
C13_MappingIsTable ==
    \A p \in Procs :
        pc[p] = "done" =>
            /\ result[p].err \in ShortenErrors
            /\ <<resp[p].status, resp[p].code>> = TaxonomyRow(result[p].err)
            /\ resp[p].link = 0
            /\ resp[p].location = {}

\* All five kinds get rendered; here the two that differ from 500 are.
C13_Witness ==
    \E p, q \in Procs :
        /\ pc[p] = "done" /\ result[p].err = "PrimaryKeyConflict"
        /\ resp[p].status = CONFLICT
        /\ pc[q] = "done" /\ result[q].err = "NotFound"
        /\ resp[q].code = "NOT_FOUND"

\* C14: a row, once in the table, is in the table after every step of every
\* handler and of the store, with its id and its url as they were.
C14_RowsStay ==
    [][\A r \in urls : r \in urls']_vars

\* The upsert has taken its URL-conflict branch for a submit whose candidate
\* was another identifier, in a table of several rows, and the row is as it
\* was issued.
C14_Witness ==
    \E p \in Submits :
        /\ pc[p] = "done"
        /\ resp[p].status = CREATED
        /\ id[p] # result[p].val
        /\ Cardinality(urls) >= 2
        /\ Cardinality(issued) >= 2
        /\ issued \subseteq urls

\* C15: a submit request whose URL had a row when it arrived makes one store
\* attempt only and keeps retry_cnt at 0; when the store answers that
\* attempt (no store or connection failure), the answer is 201 with the
\* identifier of that row, the table is as it was, and no PrimaryKeyConflict
\* is reported, whatever the candidate, one that is the id of another URL's
\* row included.
C15_ExistingUrlFirstAttempt ==
    [][\A p \in Submits :
        (expect[p] # {} /\ Resumes(p)) =>
            /\ retry_cnt[p] = 0
            /\ attempts[p] = 1
            /\ pc'[p] = "done"
            /\ result'[p] # Err("PrimaryKeyConflict")
            /\ result'[p].err \notin {"DbOperationException"} =>
                /\ \E i \in expect[p] : resp'[p] = CreatedResponse(i)
                /\ urls' = urls]_vars

\* A submit of a URL that had a row on arrival drew the id of another URL's
\* row as its candidate and was answered 201 with the id of its own row.
C15_Witness ==
    \E p \in Submits :
        /\ pc[p] = "done"
        /\ expect[p] # {}
        /\ resp[p].status = CREATED
        /\ resp[p].link \in expect[p]
        /\ \E r \in urls : r.id = id[p] /\ r.url # data[p]

\* C16: retry_cnt and the number of statements of a submit never exceed
\* MAX_RETRY_TIMES, retry_cnt is incremented (by one) only by an attempt
\* that returned PrimaryKeyConflict, and, every store call returning, a
\* submit in its loop is eventually answered 201 or a failure status
\* (unless its caller disconnects first).
C16_Terminates ==
    /\ [](\A p \in Procs : retry_cnt[p] <= MAX_RETRY_TIMES /\ attempts[p] <= MAX_RETRY_TIMES)
    /\ [][\A p \in Procs :
            retry_cnt'[p] > retry_cnt[p] =>
                /\ Resumes(p)
                /\ result'[p] = Err("PrimaryKeyConflict")
                /\ retry_cnt'[p] = retry_cnt[p] + 1]_vars
    /\ \A p \in Procs :
        (pc[p] \in {"loop", "query"}) ~>
            \/ pc[p] = "done" /\ resp[p].status \in {CREATED, UNPROCESSABLE_ENTITY}
            \/ pc[p] = "idle"

\* One submit has been answered 201 by its tenth attempt while another was
\* answered with the failure status after ten conflicts.
C16_Witness ==
    \E p, q \in Submits :
        /\ pc[p] = "done" /\ resp[p].status = CREATED
        /\ id[p] = result[p].val
        /\ pc[q] = "done" /\ resp[q].status = UNPROCESSABLE_ENTITY
        /\ result[q] = Err("PrimaryKeyConflict")

\* C17: the statements a submit has sent are the conflicts it has counted
\* plus the one in flight, if any (so never two in flight); a statement
\* after the first is sent only when the one before has returned
\* PrimaryKeyConflict; and the candidate of that one is not kept: the next
\* statement carries whatever nanoid!(6) gives then, any identifier.
C17_Sequential ==
    [][\A p \in Submits :
        /\ pc[p] \in {"loop", "query"} =>
              attempts[p] = retry_cnt[p] + (IF pc[p] = "query" THEN 1 ELSE 0)
        /\ pc[p] = "loop" => id[p] = 0
        /\ (pc[p] = "loop" /\ pc'[p] = "query") =>
              /\ attempts'[p] = attempts[p] + 1
              /\ attempts[p] > 0 => result[p] = Err("PrimaryKeyConflict")
              /\ \A i \in Ids : ENABLED Generate(p, i)]_vars

\* A submit is in its third attempt, the two before it having collided,
\* and its new candidate is again the id of another URL's row.
C17_Witness ==
    \E p \in Submits :
        /\ pc[p] = "query"
        /\ attempts[p] = 3
        /\ retry_cnt[p] = 2
        /\ result[p] = Err("PrimaryKeyConflict")
        /\ RowsOfId(id[p]) # {}
        /\ RowsOfUrl(data[p]) = {}

\* C18: a step that drops a handler suspended on its round trip either
\* leaves the table as it is or adds the whole row (id, url) of the dropped
\* attempt, and the table after it still pairs ids and urls one to one; a
\* row added so stays, and every later 201 to a submit of its url carries
\* its id.
C18_NoPartialState ==
    [][/\ \A p \in Procs :
            (pc[p] \in {"query", "get_url"} /\ pc'[p] = "idle") =>
                /\ \/ urls' = urls
                   \/ /\ pc[p] = "query"
                      /\ urls' = urls \cup {[id |-> id[p], url |-> data[p]]}
                /\ \A a, b \in urls' : (a.id = b.id) <=> (a.url = b.url)
       /\ \A r \in dropped : r \in urls'
       /\ \A p \in Submits :
            (Resumes(p) /\ resp'[p].status = CREATED) =>
                \A r \in dropped : r.url = data[p] => resp'[p] = CreatedResponse(r.id)]_vars

\* The statement of a dropped submit inserted its row, and a later submit of
\* the same URL, drawing another candidate, was answered 201 with the id of
\* that row; the table holds another URL's row too.
C18_Witness ==
    \E r \in dropped : \E p \in Submits :
        /\ pc[p] = "done"
        /\ data[p] = r.url
        /\ expect[p] = {r.id}
        /\ id[p] # r.id
        /\ resp[p] = CreatedResponse(r.id)
        /\ r \in urls
        /\ Cardinality(urls) >= 2

\* Raw errors of a statement, one naming another constraint among them.
RawErrors ==
    {ErrPkey, ErrDatabase, ErrIo, ErrRowNotFound,
     [kind |-> "Database", constraint |-> "urls_url_key"]}

\* C19: From<sqlx::Error> gives PrimaryKeyConflict for the error that names
\* urls_pkey and DbOperationException for every other raw error; the error
\* shorten matches on is one of these two, it is PrimaryKeyConflict only
\* when the statement ran into the primary key (no row of the url, a row of
\* the candidate), and the loop goes round again exactly when it is
\* PrimaryKeyConflict: any other store error ends the request at once.
C19_OneConversion ==
    [][/\ \A e \in RawErrors :
            FromSqlxError(e) =
                IF e = ErrPkey THEN "PrimaryKeyConflict" ELSE "DbOperationException"
       /\ \A p \in Submits : Resumes(p) =>
            /\ result'[p].tag = "Err" =>
                  result'[p].err \in {"PrimaryKeyConflict", "DbOperationException"}
            /\ result'[p] = Err("PrimaryKeyConflict") =>
                  /\ RowsOfUrl(data[p]) = {}
                  /\ RowsOfId(id[p]) # {}
            /\ pc'[p] = "loop" <=> result'[p] = Err("PrimaryKeyConflict")
            /\ result'[p] = Err("DbOperationException") =>
                  /\ pc'[p] = "done"
                  /\ resp'[p].status # CREATED
                  /\ attempts[p] = retry_cnt[p] + 1]_vars

\* One submit is back at the top of its loop after a primary-key violation
\* while another, whose candidate was free, has been ended by a store
\* failure.
C19_Witness ==
    \E p, q \in Submits :
        /\ pc[p] = "loop"
        /\ retry_cnt[p] = 1
        /\ result[p] = Err("PrimaryKeyConflict")
        /\ pc[q] = "done"
        /\ result[q] = Err("DbOperationException")
        /\ RowsOfId(id[q]) = {}

\* C20: a step adds at most one row, and only the row (candidate, url) of a
\* submit attempt then in flight, whose request ends with that step (so a
\* request adds one row at most); an attempt that returns
\* PrimaryKeyConflict, or whose url had a row, adds none; no step of a
\* resolve request changes the table; and the table never holds more rows
\* than distinct urls.
C20_NoSpuriousRows ==
    [][/\ Cardinality(urls' \ urls) <= 1
       /\ \A r \in urls' \ urls :
            \E p \in Submits :
                /\ pc[p] = "query"
                /\ r = [id |-> id[p], url |-> data[p]]
                /\ pc'[p] \in {"done", "idle"}
       /\ \A p \in Submits :
            (/\ pc[p] = "query"
             /\ pc'[p] # "query"
             /\ \/ result'[p] = Err("PrimaryKeyConflict")
                \/ RowsOfUrl(data[p]) # {})
                => urls' = urls
       /\ \A p \in Procs :
            (/\ pc'[p] # pc[p]
             /\ \/ pc[p] = "get_url"
                \/ pc'[p] = "get_url"
                \/ path[p] # 0)
                => urls' = urls
       /\ Cardinality(urls') <= Cardinality({r.url : r \in urls'})]_vars

\* Every url has its row and every row was given out in a 201; a submit
\* whose url had no row on arrival was answered with the candidate of the
\* attempt that inserted its row, and a resolve request was answered 308.
C20_Witness ==
    \E p \in Submits : \E q \in Resolves :
        /\ pc[p] = "done"
        /\ resp[p] = CreatedResponse(id[p])
        /\ expect[p] = {}
        /\ pc[q] = "done"
        /\ resp[q].status = PERMANENT_REDIRECT
        /\ Cardinality(urls) = Cardinality(Urls)
        /\ urls = issued

====
